---- MODULE Spec2Model ----
(***************************************************************************)
(* Model of scripts/imgdiff.py: main() reads two image files, compares     *)
(* their sizes, computes the absolute difference image and its aggregate   *)
(* RMS, saves the difference image when the RMS is positive, and returns   *)
(* an exit code.  The file system and the environment (is Pillow           *)
(* importable, can the --out path be saved to) are part of the state so    *)
(* that successive invocations can be related to each other.               *)
(*                                                                         *)
(* Reals are not available: the aggregate RMS is kept as the exact         *)
(* rational rms^2 = num / den, and rms <= t, rms > 0 are decided on the    *)
(* squares.  For the pixel values used here every square root the code     *)
(* takes at a comparison boundary is exact, so the float result agrees.    *)
(***************************************************************************)
EXTENDS Integers, Sequences, FiniteSets, TLC

\* ---------------------------------------------------------------- bounds
MaxWidth == 2          \* images are w x 1 pixels, w in 1..MaxWidth
MaxThreshold == 1      \* --max-rms ranges over MinThreshold..MaxThreshold and nan
MaxRuns == 2           \* successive invocations of the tool in one behaviour

MinThreshold == 0 - 1

\* ---------------------------------------------------------------- inputs
BaselinePath == "baseline.png"
CurrentPath == "current.png"
DefaultOut == "diff.png"
Paths == {BaselinePath, CurrentPath, DefaultOut}

Sizes == {<<w, 1>> : w \in 1..MaxWidth}

\* Pixel values the input files are drawn from, per file mode.
Palette(mode) ==
    IF mode = "L" THEN {<<0>>}
    ELSE {<<0, 0, 0, 255>>, <<2, 0, 0, 255>>}

FileModes == {"L", "RGBA"}

\* The content of a path that Image.open cannot decode (absent or corrupt).
Unreadable == [mode |-> "none", size |-> <<0, 0>>, data |-> <<>>]

ImageFiles ==
    UNION {UNION {{[mode |-> m, size |-> s, data |-> d] :
                       d \in [1..(s[1] * s[2]) -> Palette(m)]} : s \in Sizes} :
           m \in FileModes}

\* --max-rms is a float: a number or nan.
NaN == [nan |-> TRUE, val |-> 0]
Num(n) == [nan |-> FALSE, val |-> n]
Thresholds == {Num(n) : n \in MinThreshold..MaxThreshold} \cup {NaN}

\* How diff.save(out) ends in this environment.
SaveModes == {"ok", "fail_untouched", "fail_truncated"}

NoImage == Unreadable
NoRms == [num |-> 0 - 1, den |-> 1]
NoExit == 0 - 1
NoArgs == [baseline |-> "", current |-> "", out |-> "", max_rms |-> Num(0)]

VARIABLES fs, pillow, saveMode, pc, args, baseline, current, diff, rms,
          exit, stdout, stderr, writes, startFs, runs, prev

vars == <<fs, pillow, saveMode, pc, args, baseline, current, diff, rms,
          exit, stdout, stderr, writes, startFs, runs, prev>>

env == <<pillow, saveMode>>
locals == <<baseline, current, diff, rms>>

\* ------------------------------------------------------- library helpers
Abs(x) == IF x < 0 THEN 0 - x ELSE x

\* Image.open(path) raises unless the path holds a decodable image.
CanOpen(path) == fs[path].mode # "none"

\* Image.convert("RGBA"): grey v becomes (v, v, v, 255), RGBA is kept.
ConvertPixel(mode, p) ==
    IF mode = "L" THEN <<p[1], p[1], p[1], 255>> ELSE p

ConvertRGBA(img) ==
    [mode |-> "RGBA", size |-> img.size,
     data |-> [i \in DOMAIN img.data |-> ConvertPixel(img.mode, img.data[i])]]

\* ImageChops.difference: per pixel, per channel absolute difference.
Difference(a, b) ==
    [mode |-> "RGBA", size |-> a.size,
     data |-> [i \in DOMAIN a.data |->
                  [c \in 1..4 |-> Abs(a.data[i][c] - b.data[i][c])]]]

RECURSIVE SumSq(_, _, _)
SumSq(img, c, i) ==
    IF i = 0 THEN 0
    ELSE img.data[i][c] * img.data[i][c] + SumSq(img, c, i - 1)

\* Stat(diff).rms squared, channel c: sum of squares / pixel count.
\* Returned as the numerator; the denominator is the pixel count.
ChannelSum2(img, c) == SumSq(img, c, Len(img.data))

\* rms = (sum(v * v for v in rms_channels) / len(rms_channels)) ** 0.5
\* as the exact rational rms^2 = num / den.
AggregateRms(img) ==
    [num |-> ChannelSum2(img, 1) + ChannelSum2(img, 2)
             + ChannelSum2(img, 3) + ChannelSum2(img, 4),
     den |-> 4 * Len(img.data)]

\* Variant: the diff is saved only above an RMS of 1.
RmsPositiveAboveOne(r) == r.num > r.den

\* rms > 0
RmsPositive(r) == r.num > 0

\* Variant: strict comparison, rms < args.max_rms.
RmsWithinStrict(r, t) ==
    /\ ~t.nan
    /\ t.val > 0
    /\ r.num < t.val * t.val * r.den

\* Variant: operands swapped, args.max_rms <= rms.
RmsWithinSwapped(r, t) ==
    /\ ~t.nan
    /\ (t.val < 0 \/ t.val * t.val * r.den <= r.num)

\* rms <= args.max_rms (float comparison: anything against nan is False)
RmsWithin(r, t) ==
    /\ ~t.nan
    /\ t.val >= 0
    /\ r.num <= t.val * t.val * r.den

\* ------------------------------------------------------------------ Init
\* Before the first invocation the two input paths hold any file (or none)
\* and the default --out path holds none; the environment does not change
\* between invocations.
Init ==
    /\ fs \in {f \in [Paths -> ImageFiles \cup {Unreadable}] :
                  f[DefaultOut] = Unreadable}
    /\ pillow \in BOOLEAN
    /\ saveMode \in SaveModes
    /\ pc = "idle"
    /\ args = NoArgs
    /\ baseline = NoImage
    /\ current = NoImage
    /\ diff = NoImage
    /\ rms = NoRms
    /\ exit = NoExit
    /\ stdout = <<>>
    /\ stderr = <<>>
    /\ writes = 0
    /\ startFs = fs
    /\ runs = 0
    /\ prev = [valid |-> FALSE]

\* What is remembered of a finished invocation.
RunSummary ==
    [valid |-> TRUE, args |-> args, exit |-> exit, rms |-> rms,
     stdout |-> stdout, stderr |-> stderr,
     inBaseline |-> startFs[args.baseline],
     inCurrent |-> startFs[args.current],
     outFile |-> fs[args.out]]

\* ---------------------------------------------------------------- actions
\* parser.parse_args(): a new invocation of the tool, with any --out path
\* and any --max-rms.
ParseArgs ==
    /\ pc \in {"idle", "done"}
    /\ runs < MaxRuns
    /\ \E out \in Paths, t \in Thresholds :
          /\ args' = [baseline |-> BaselinePath, current |-> CurrentPath,
                      out |-> out, max_rms |-> t]
    /\ prev' = IF pc = "done" THEN RunSummary ELSE prev
    /\ runs' = runs + 1
    /\ startFs' = fs
    /\ baseline' = NoImage
    /\ current' = NoImage
    /\ diff' = NoImage
    /\ rms' = NoRms
    /\ exit' = NoExit
    /\ stdout' = <<>>
    /\ stderr' = <<>>
    /\ writes' = 0
    /\ pc' = "import"
    /\ UNCHANGED <<fs, env>>

\* try: from PIL import ... except Exception: print(..., stderr); return 2
ImportPillow ==
    /\ pc = "import"
    /\ IF pillow
       THEN /\ pc' = "load"
            /\ UNCHANGED <<exit, stderr>>
       ELSE /\ stderr' = Append(stderr, "Pillow is required")
            /\ exit' = 2
            /\ pc' = "done"
    /\ UNCHANGED <<fs, env, args, locals, stdout, writes, startFs, runs, prev>>

\* try: Image.open(...).convert("RGBA") twice; except: print(..., stderr); return 2
LoadImages ==
    /\ pc = "load"
    /\ IF CanOpen(args.baseline) /\ CanOpen(args.current)
       THEN /\ baseline' = ConvertRGBA(fs[args.baseline])
            /\ current' = ConvertRGBA(fs[args.current])
            /\ pc' = "sizes"
            /\ UNCHANGED <<exit, stderr>>
       ELSE /\ stderr' = Append(stderr, "Failed to read images")
            /\ exit' = 2
            /\ pc' = "done"
            /\ UNCHANGED <<baseline, current>>
    /\ UNCHANGED <<fs, env, args, diff, rms, stdout, writes, startFs, runs, prev>>

\* Variant: the size message is printed without file=sys.stderr.
CompareSizesStdout ==
    /\ pc = "sizes"
    /\ IF baseline.size # current.size
       THEN /\ stdout' = Append(stdout, "Different sizes")
            /\ exit' = 1
            /\ pc' = "done"
            /\ UNCHANGED stderr
       ELSE /\ pc' = "diff"
            /\ UNCHANGED <<exit, stdout, stderr>>
    /\ UNCHANGED <<fs, env, args, locals, writes, startFs, runs, prev>>

\* if baseline.size != current.size: print(..., stderr); return 1
CompareSizes ==
    /\ pc = "sizes"
    /\ IF baseline.size # current.size
       THEN /\ stderr' = Append(stderr, "Different sizes")
            /\ exit' = 1
            /\ pc' = "done"
       ELSE /\ pc' = "diff"
            /\ UNCHANGED <<exit, stderr>>
    /\ UNCHANGED <<fs, env, args, locals, stdout, writes, startFs, runs, prev>>

\* diff = ImageChops.difference(...); stat = Stat(diff); rms = ...
ComputeDiff ==
    /\ pc = "diff"
    /\ diff' = Difference(baseline, current)
    /\ rms' = AggregateRms(diff')
    /\ pc' = "save"
    /\ UNCHANGED <<fs, env, args, baseline, current, exit, stdout, stderr,
                   writes, startFs, runs, prev>>

\* What the interpreter prints for the uncaught exception: several lines.
Traceback == <<"Traceback (most recent call last):", "OSError">>

\* The file left at the path by a save that raised.
AfterFailedSave(old) ==
    IF saveMode = "fail_truncated" THEN Unreadable ELSE old

\* Variant: the diff is saved over the current image.
SaveDiffToCurrent ==
    /\ pc = "save"
    /\ IF RmsPositive(rms)
       THEN IF saveMode = "ok"
            THEN /\ fs' = [fs EXCEPT ![args.current] = diff]
                 /\ writes' = writes + 1
                 /\ pc' = "decide"
                 /\ UNCHANGED <<exit, stderr>>
            ELSE /\ fs' = [fs EXCEPT ![args.out] = AfterFailedSave(@)]
                 /\ stderr' = stderr \o Traceback
                 /\ exit' = 1
                 /\ pc' = "done"
                 /\ UNCHANGED writes
       ELSE /\ pc' = "decide"
            /\ UNCHANGED <<fs, writes, exit, stderr>>
    /\ UNCHANGED <<env, args, locals, stdout, startFs, runs, prev>>

\* Variant: the diff is saved over the baseline image.
SaveDiffToBaseline ==
    /\ pc = "save"
    /\ IF RmsPositive(rms)
       THEN IF saveMode = "ok"
            THEN /\ fs' = [fs EXCEPT ![args.baseline] = diff]
                 /\ writes' = writes + 1
                 /\ pc' = "decide"
                 /\ UNCHANGED <<exit, stderr>>
            ELSE /\ fs' = [fs EXCEPT ![args.out] = AfterFailedSave(@)]
                 /\ stderr' = stderr \o Traceback
                 /\ exit' = 1
                 /\ pc' = "done"
                 /\ UNCHANGED writes
       ELSE /\ pc' = "decide"
            /\ UNCHANGED <<fs, writes, exit, stderr>>
    /\ UNCHANGED <<env, args, locals, stdout, startFs, runs, prev>>

\* if rms > 0: diff.save(args.out).  A save that raises is not caught by
\* main(): the interpreter prints the traceback and the process exits 1.
SaveDiff ==
    /\ pc = "save"
    /\ IF RmsPositive(rms)
       THEN IF saveMode = "ok"
            THEN /\ fs' = [fs EXCEPT ![args.out] = diff]
                 /\ writes' = writes + 1
                 /\ pc' = "decide"
                 /\ UNCHANGED <<exit, stderr>>
            ELSE /\ fs' = [fs EXCEPT ![args.out] = AfterFailedSave(@)]
                 /\ stderr' = stderr \o Traceback
                 /\ exit' = 1
                 /\ pc' = "done"
                 /\ UNCHANGED writes
       ELSE /\ pc' = "decide"
            /\ UNCHANGED <<fs, writes, exit, stderr>>
    /\ UNCHANGED <<env, args, locals, stdout, startFs, runs, prev>>

\* Variant: the identical outcome is reported on stdout too.
DecideAlwaysPrints ==
    /\ pc = "decide"
    /\ IF RmsWithin(rms, args.max_rms)
       THEN /\ stdout' = Append(stdout, "Images identical")
            /\ exit' = 0
       ELSE /\ stdout' = Append(stdout, "Images differ. Wrote out")
            /\ exit' = 1
    /\ pc' = "done"
    /\ UNCHANGED <<fs, env, args, locals, stderr, writes, startFs, runs, prev>>

\* if rms <= args.max_rms: return 0;  print("Images differ ..."); return 1
Decide ==
    /\ pc = "decide"
    /\ IF RmsWithin(rms, args.max_rms)
       THEN /\ exit' = 0
            /\ UNCHANGED stdout
       ELSE /\ stdout' = Append(stdout, "Images differ. Wrote out")
            /\ exit' = 1
    /\ pc' = "done"
    /\ UNCHANGED <<fs, env, args, locals, stderr, writes, startFs, runs, prev>>

Next ==
    \/ ParseArgs
    \/ ImportPillow
    \/ LoadImages
    \/ CompareSizes
    \/ ComputeDiff
    \/ SaveDiff
    \/ Decide

Spec == Init /\ [][Next]_vars

\* ------------------------------------------------------- state predicates
Done == pc = "done"

\* Both images were opened and converted in this invocation.
Loaded == baseline.mode = "RGBA" /\ current.mode = "RGBA"

SizesEqual == baseline.size = current.size

\* The dependency is missing or one of the two input files cannot be read.
LoadError ==
    \/ ~pillow
    \/ startFs[args.baseline].mode = "none"
    \/ startFs[args.current].mode = "none"

\* diff.save raised in this invocation.
SaveRaised == Len(stderr) = Len(Traceback) /\ stderr = Traceback

\* The claims' own reading of "RMS <= max_rms" and "RMS > max_rms" on numbers.
ClaimWithin(r, t) == ~t.nan /\ t.val >= 0 /\ r.num <= t.val * t.val * r.den
ClaimOver(r, t) == ~t.nan /\ (t.val < 0 \/ r.num > t.val * t.val * r.den)

\* Some RGBA channel of some pixel differs between the two loaded images.
SomeChannelDiffers ==
    \E i \in DOMAIN baseline.data : \E c \in 1..4 :
        baseline.data[i][c] # current.data[i][c]

\* The two numeric thresholds of successive invocations on unchanged inputs.
SameInputsAsPrev ==
    /\ prev.valid
    /\ prev.inBaseline = startFs[args.baseline]
    /\ prev.inCurrent = startFs[args.current]
    /\ prev.args.baseline = args.baseline
    /\ prev.args.current = args.current
    /\ prev.args.out = args.out

\* ----------------------------------------------------------------- claims

\* C1 (as stated): a finished run has exit code 0 exactly when both images
\* loaded, the sizes are equal and RMS <= max_rms; 1 exactly when the sizes
\* differ or RMS > max_rms; 2 exactly when the dependency is missing or an
\* image is unreadable; never 1 because saving the diff image failed.
C1_ExitCodeContract ==
    Done =>
        /\ exit \in {0, 1, 2}
        /\ exit = 0 <=> (Loaded /\ SizesEqual /\ ClaimWithin(rms, args.max_rms))
        /\ exit = 1 <=> (Loaded /\ (~SizesEqual \/ ClaimOver(rms, args.max_rms)))
        /\ exit = 2 <=> LoadError
        /\ ~(exit = 1 /\ SaveRaised)

\* C2: when both images load and their sizes differ, the run returns 1 for
\* every threshold, writes one message to stderr and nothing to stdout, makes
\* no pixel comparison and leaves the file system, the --out path included,
\* as it was.
C2_SizeMismatch ==
    (Done /\ Loaded /\ ~SizesEqual) =>
        /\ exit = 1
        /\ stdout = <<>>
        /\ stderr = <<"Different sizes">>
        /\ diff = NoImage
        /\ rms = NoRms
        /\ writes = 0
        /\ fs = startFs

C2_Witness ==
    /\ Done /\ Loaded /\ ~SizesEqual
    /\ args.max_rms = Num(MaxThreshold)
    /\ exit = 1

C4_IdenticalImages ==
    (/\ Done
     /\ ~LoadError
     /\ ConvertRGBA(startFs[args.baseline]) = ConvertRGBA(startFs[args.current])
     /\ ~args.max_rms.nan
     /\ args.max_rms.val >= 0) =>
        /\ rms.num = 0
        /\ exit = 0
        /\ stdout = <<>>
        /\ stderr = <<>>
        /\ writes = 0
        /\ fs = startFs

C4_Witness ==
    /\ Done
    /\ ~LoadError
    /\ startFs[args.baseline].mode # startFs[args.current].mode
    /\ ConvertRGBA(startFs[args.baseline]) = ConvertRGBA(startFs[args.current])
    /\ args.max_rms = Num(0)
    /\ exit = 0

\* C5: for the same input images and --out, and thresholds t1 <= t2, a run
\* that was Identical at t1 is Identical at t2, and an Error or a size
\* mismatch at t1 is the same outcome at t2.
C5_Monotone ==
    (/\ Done
     /\ SameInputsAsPrev
     /\ ~prev.args.max_rms.nan
     /\ ~args.max_rms.nan
     /\ prev.args.max_rms.val <= args.max_rms.val) =>
        /\ prev.exit = 0 => exit = 0
        /\ prev.exit = 2 => (exit = 2 /\ stderr = prev.stderr)
        /\ prev.stderr = <<"Different sizes">> =>
               (exit = 1 /\ stderr = prev.stderr)

C5_Witness ==
    /\ Done
    /\ SameInputsAsPrev
    /\ ~prev.args.max_rms.nan
    /\ ~args.max_rms.nan
    /\ prev.args.max_rms.val < args.max_rms.val
    /\ Loaded
    /\ prev.exit = 0
    /\ exit = 0

\* C6 (as stated): a second run with the same arguments ends with the same
\* exit code, the same RMS and the same file at --out as the first, also
\* when --out names the baseline or the current file.
C6_Idempotent ==
    (Done /\ prev.valid /\ prev.args = args) =>
        /\ exit = prev.exit
        /\ rms = prev.rms
        /\ fs[args.out] = prev.outFile

\* C6 (amended): a second run with the same arguments ends with the same
\* exit code, the same RMS and the same file at --out as the first, provided
\* --out names neither the baseline nor the current file.
C6_IdempotentDistinctOut ==
    (Done /\ prev.valid /\ prev.args = args
          /\ args.out \notin {args.baseline, args.current}) =>
        /\ exit = prev.exit
        /\ rms = prev.rms
        /\ fs[args.out] = prev.outFile

C6_Witness ==
    /\ Done /\ prev.valid /\ prev.args = args
    /\ args.out \notin {args.baseline, args.current}
    /\ writes = 1
    /\ fs[args.out] = prev.outFile

\* C7 (as stated): a missing dependency or an unreadable image gives one
\* stderr message, no stdout, exit 2, no comparison and no write; and every
\* failure of a run, a failed save of the diff image included, ends with
\* exit code 2.
C7_ErrorsExitTwo ==
    /\ (Done /\ LoadError) =>
          /\ Len(stderr) = 1
          /\ stdout = <<>>
          /\ exit = 2
          /\ rms = NoRms
          /\ writes = 0
          /\ fs = startFs
    /\ (Done /\ (LoadError \/ SaveRaised)) => exit = 2

\* C8 (as stated): every run that ends in one of the outcomes Identical,
\* Different or Error (main() returned 0, 1 or 2) has written exactly one
\* line in total to stdout or stderr.
C8_ExactlyOneLine ==
    (Done /\ ~SaveRaised) => Len(stdout) + Len(stderr) = 1

\* C8 (amended): a run that returns 0 writes no line; a run that returns 2
\* or ends on a size mismatch writes exactly one line, to stderr; a run that
\* returns 1 on the RMS writes exactly one line, to stdout; a run whose save
\* raises prints nothing itself and the interpreter's traceback goes to
\* stderr.
C8_LinesPerOutcome ==
    Done =>
        /\ exit = 0 => (stdout = <<>> /\ stderr = <<>>)
        /\ exit = 2 => (stdout = <<>> /\ Len(stderr) = 1)
        /\ (exit = 1 /\ ~SizesEqual) =>
               (stdout = <<>> /\ stderr = <<"Different sizes">>)
        /\ (exit = 1 /\ SizesEqual /\ ~SaveRaised) =>
               (Len(stdout) = 1 /\ stderr = <<>>)
        /\ SaveRaised => (exit = 1 /\ stdout = <<>>)
        /\ exit \in {0, 1, 2}

C8_Witness ==
    /\ Done
    /\ exit = 0
    /\ rms.num > 0
    /\ stdout = <<>>
    /\ stderr = <<>>

\* C9 (as stated): whenever the run prints the "Images differ ... Wrote
\* <out>" message and returns 1, the RMS was > 0 and the diff image was
\* saved to --out in that run.
C9_WroteMeansWritten ==
    (Done /\ stdout # <<>>) =>
        /\ exit = 1
        /\ rms.num > 0
        /\ writes = 1
        /\ fs[args.out] = diff

\* C10 (as stated): the files at the baseline and current paths are the same
\* after the run as before it; only the --out file can change, it is written
\* at most once, and only after both images loaded with equal sizes.
C10_InputsUntouched ==
    /\ fs[BaselinePath] = startFs[BaselinePath]
    /\ fs[CurrentPath] = startFs[CurrentPath]
    /\ writes <= 1
    /\ fs # startFs => (Loaded /\ SizesEqual /\ pc \in {"decide", "done"})

\* C10 (amended): every file other than the one at --out is the same during
\* and after the run as before it (so the baseline and current files are
\* unchanged unless --out names one of them); the --out file is written at
\* most once, and only after both images loaded with equal sizes.
C10_OnlyOutChanges ==
    pc # "idle" =>
        /\ \A p \in Paths \ {args.out} : fs[p] = startFs[p]
        /\ writes <= 1
        /\ fs # startFs => (Loaded /\ SizesEqual /\ pc \in {"decide", "done"})

C10_Witness ==
    /\ Done
    /\ writes = 1
    /\ args.out = DefaultOut
    /\ fs[args.out] # startFs[args.out]
    /\ fs[BaselinePath] = startFs[BaselinePath]

====
